---- MODULE Spec2Model ----
(***************************************************************************)
(* A model of src/app.py: CustomCrawler (run, search_and_submit,           *)
(* scrape_page, scrape_item, get_table_data, next_page) and the Streamlit  *)
(* "Search" button handler that calls it.                                  *)
(*                                                                         *)
(* The browser and the web site are the environment.  Every awaited        *)
(* browser operation either completes or raises; which of the two happens, *)
(* and what the site shows, is chosen nondeterministically.                *)
(***************************************************************************)
EXTENDS Integers, Sequences, FiniteSets, TLC

\* ------------------------------------------------------------------ bounds

\* Largest number the site's active-page indicator ever shows in a run.
MaxIndicator == 2

\* Largest number the indicator shows to the next_page call studied on its own.
MaxShown == 3

\* Largest number of rows of the ingredient table studied on its own.
MaxTableRows == 4

\* ------------------------------------------------------- program constants

\* range(2, 22) of scrape_page: first row position and the exclusive end.
RowFirst == 2
RowEnd == 22

\* rows[2:] of scrape_item: the number of leading rows that are skipped.
HeaderRows == 2

\* len(cols) == 2 of scrape_item.
IngredientCols == 2

\* self.current_page = 1 and self.total_items_scraped = 0 of __init__.
FirstPage == 1
NoItems == 0

\* ------------------------------------------------------------------- text

\* A text is a sequence of characters, each given by its Unicode code point
\* (32 is the blank, 9 the tab, 10 the line feed, 160 the no-break space,
\* 12288 the ideographic space; 97.. are the letters a.., 49.. the digits 1..).

\* The characters str.strip() removes from both ends: those of str.isspace().
Whitespace ==
  (9..13) \cup (28..32) \cup { 133, 160, 5760 } \cup (8192..8202)
    \cup { 8232, 8233, 8239, 8287, 12288 }

IsSpace(c) == c \in Whitespace

RECURSIVE LStrip(_)
LStrip(s) == IF s # <<>> /\ IsSpace(Head(s)) THEN LStrip(Tail(s)) ELSE s

RECURSIVE RStrip(_)
RStrip(s) ==
  IF s # <<>> /\ IsSpace(s[Len(s)]) THEN RStrip(SubSeq(s, 1, Len(s) - 1)) ELSE s

\* str.strip()
Strip(s) == RStrip(LStrip(s))

\* ------------------------------------------------------ values and results

\* Python's None and a present value, as a sequence of at most one element.
None == <<>>
Some(v) == <<v>>

\* The outcome of a call: it returned a value or it raised.
Ret(v) == [raised |-> FALSE, value |-> v]
Raise == [raised |-> TRUE, value |-> None]

\* ------------------------------------------------------- the detail overlay

\* The keys of data[...] in scrape_item, in the order they are read.
FieldKeys ==
  << "registered_number", "first_prove", "period", "product_name",
     "toxicity", "formulation", "registration_certificate_holder", "remark" >>

FieldKeySet == { FieldKeys[n] : n \in 1..Len(FieldKeys) }

RecordKeys == FieldKeySet \cup {"active_ingredients"}

\* The text of a value cell as the site renders it: "v" after a line feed
\* and a blank and before a tab and a no-break space.
CellText == << 10, 32, 118, 9, 160 >>

\* The second table of the overlay: two header rows, then data rows, one of
\* which does not have two cells.
IngredientTable ==
  << << << 104 >> >>,
     << << 104 >>, << 104 >> >>,
     << << 9, 97 >>, << 49, 10 >> >>,
     << << 120 >>, << 121 >>, << 122 >> >>,
     << << 98 >>, << 12288, 50, 32 >> >> >>

\* Where an awaited step of scrape_item may raise.
ItemFaults == { "none", "click", "wait_overlay", "table", "close", "wait_hidden" }

\* What the site and the browser do during one scrape_item call: the step
\* that raises (if any) and the labels the overlay has no cell for.
ItemEnvs == [ fault : ItemFaults, missing : SUBSET FieldKeySet ]

\* The cells following each label: none for a missing label.
OverlayCells(missing) ==
  [ k \in FieldKeySet |-> IF k \in missing THEN <<>> ELSE << CellText >> ]

\* get_table_data: locator(...).first.inner_text() raises when no element
\* matches; otherwise the stripped text is returned.  There is no handler.
get_table_data(cells, k) ==
  IF cells[k] = <<>> THEN Raise ELSE Ret(Strip(cells[k][1]))

\* The loop over rows[2:] of scrape_item.
RECURSIVE IngredientRows(_)
IngredientRows(rows) ==
  IF rows = <<>> THEN <<>>
  ELSE LET cols == Head(rows)
           rest == IngredientRows(Tail(rows))
       IN IF Len(cols) = IngredientCols
            THEN << [ingredient |-> Strip(cols[1]), content |-> Strip(cols[2])] >>
                   \o rest
            ELSE rest

\* rows[1:]
DropHeaderOne(rows) ==
  IF Len(rows) <= 1 THEN <<>> ELSE SubSeq(rows, 2, Len(rows))

\* rows[2:]
DropHeader(rows) ==
  IF Len(rows) <= HeaderRows THEN <<>> ELSE SubSeq(rows, HeaderRows + 1, Len(rows))

ParseIngredients(rows) == IngredientRows(DropHeader(rows))

\* The body of the try block of scrape_item, run against an overlay that is
\* open or not (ov) in environment env.  The result carries the overlay's
\* state when the body is left.
scrape_item_body(ov, env) ==
  IF env.fault = "click" THEN [ res |-> Raise, overlay |-> ov ]
  ELSE IF env.fault = "wait_overlay" THEN [ res |-> Raise, overlay |-> ov ]
  ELSE
    LET cells == OverlayCells(env.missing)
        got == [ k \in FieldKeySet |-> get_table_data(cells, k) ]
    IN IF \E k \in FieldKeySet : got[k].raised
         THEN [ res |-> Raise, overlay |-> TRUE ]
       ELSE IF env.fault \in { "table", "close", "wait_hidden" }
         THEN [ res |-> Raise, overlay |-> TRUE ]
       ELSE
         LET rec == [ k \in RecordKeys |->
                        IF k = "active_ingredients"
                          THEN ParseIngredients(IngredientTable)
                          ELSE got[k].value ]
         IN [ res |-> Ret(Some(rec)), overlay |-> FALSE ]

\* scrape_item with a handler that catches only the timeouts of the two waits.
scrape_item_narrow_except(ov, env) ==
  LET b == scrape_item_body(ov, env)
  IN IF b.res.raised /\ env.fault \in { "wait_overlay", "wait_hidden" }
       THEN [ res |-> Ret(None), overlay |-> b.overlay ]
       ELSE b

\* scrape_item, returning the data it extracted when closing the overlay
\* fails.
scrape_item_keep_data(ov, env) ==
  LET b == scrape_item_body(ov, env)
      read == scrape_item_body(ov, [ env EXCEPT !.fault = "none" ])
  IN IF ~b.res.raised THEN b
     ELSE IF env.fault \in { "close", "wait_hidden" }
       THEN [ res |-> Ret(read.res.value), overlay |-> b.overlay ]
       ELSE [ res |-> Ret(None), overlay |-> b.overlay ]

\* scrape_item: the try block and its "except Exception: return None".
scrape_item(ov, env) ==
  LET b == scrape_item_body(ov, env)
  IN IF b.res.raised THEN [ res |-> Ret(None), overlay |-> b.overlay ] ELSE b

\* Python truth of the value scrape_item returned ("if data:"): None and
\* the empty dict are false.
Truthy(d) == d # None /\ DOMAIN d[1] # {}

\* ------------------------------------------------------------- scrape_page

\* The for loop over range(2, 22) is over when i reaches the end.
LoopDoneLate(i) == i >= RowEnd + 1

LoopDone(i) == i >= RowEnd

\* "if data: ... items_scraped += 1", with the count bumped for every item.
CollectCountAlways(n, d) == n + 1

\* "if data: ... items_scraped += 1"
CollectCount(n, d) == IF Truthy(d) THEN n + 1 ELSE n

\* "if data: page_data.append(data)"
CollectData(pd, d) == IF Truthy(d) THEN Append(pd, d[1]) ELSE pd

\* The for loop, leaving the page at the first item that failed.
AfterCollectBreak(d) == IF Truthy(d) THEN "wait_row" ELSE "merge"

\* The for loop goes on after the if/else of lines 100-104, whatever data is.
AfterCollect(d) == "wait_row"

\* The for loop, trying a failed position again.
NextRowRetry(n, d) == IF Truthy(d) THEN n + 1 ELSE n

\* The for loop takes the next position of range(2, 22), whatever data is.
NextRow(n, d) == n + 1

\* --------------------------------------------------------------- next_page

\* What the next-page link looks like when next_page looks for it.
LinkStates == { "absent", "disabled", "enabled" }

\* Where an awaited step of next_page may raise ("int" is int() of a text
\* that is no number).
AdvanceFaults ==
  { "none", "region", "query", "click", "load", "indicator", "inner_text", "int" }

\* What the site and the browser do during one next_page call: the state of
\* the link, the step that raises, the number the active-page indicator
\* shows once the click was made (0: there is no indicator element) and
\* whether the click reloads the document.
AdvanceEnvs ==
  [ link : LinkStates, fault : AdvanceFaults, after : 0..MaxIndicator,
    reload : BOOLEAN ]

\* query_selector("a:has-text(...):not(.disabled)")
QueryNextLinkAny(link) == IF link = "absent" THEN None ELSE Some(link)

QueryNextLink(link) == IF link = "enabled" THEN Some(link) ELSE None

\* "if new_page_num > self.current_page", weakened to >=.
PageIncreasedOrSame(new_page_num, cp) == new_page_num >= cp

\* "if new_page_num > self.current_page"
PageIncreased(new_page_num, cp) == new_page_num > cp

\* The body of the try block of next_page for a crawler on page cp.
\* clicked: the link's click() was invoked; current_page: the value of
\* self.current_page when the body is left.
next_page_body(cp, env) ==
  LET stay(r, c) == [ res |-> r, current_page |-> cp, clicked |-> c ]
  IN IF env.fault \in { "region", "query" } THEN stay(Raise, FALSE)
     ELSE IF QueryNextLink(env.link) = None THEN stay(Ret(FALSE), FALSE)
     ELSE IF env.fault \in { "click", "load", "indicator" } THEN stay(Raise, TRUE)
     ELSE IF env.after = 0 THEN stay(Ret(FALSE), TRUE)
     ELSE IF env.fault \in { "inner_text", "int" } THEN stay(Raise, TRUE)
     ELSE IF PageIncreased(env.after, cp)
       THEN [ res |-> Ret(TRUE), current_page |-> env.after, clicked |-> TRUE ]
       ELSE stay(Ret(FALSE), TRUE)

\* next_page with a handler that catches only the timeout of the wait for
\* the pagination region.
next_page_narrow_except(cp, env) ==
  LET b == next_page_body(cp, env)
  IN IF b.res.raised /\ env.fault = "region"
       THEN [ b EXCEPT !.res = Ret(FALSE) ]
       ELSE b

\* next_page, taking the indicator's number before comparing it.
next_page_assign_first(cp, env) ==
  LET b == next_page_body(cp, env)
  IN IF b.res.raised THEN [ b EXCEPT !.res = Ret(FALSE) ]
     ELSE IF b.clicked /\ env.after # 0
       THEN [ b EXCEPT !.current_page = env.after ]
       ELSE b

\* next_page: the try block and its "except Exception: return False".
next_page(cp, env) ==
  LET b == next_page_body(cp, env)
  IN IF b.res.raised THEN [ b EXCEPT !.res = Ret(FALSE) ] ELSE b

\* ----------------------------------------------------------------- run

\* Leaving "async with async_playwright()" without stopping the driver.
PlaywrightStopLeak(b) == b

\* Leaving "async with async_playwright()": the driver is stopped, which
\* ends a browser that is still open.
PlaywrightStop(b) == IF b = "open" THEN "closed" ELSE b

\* all_data.extend(page_data)
Extend(all, pd) == all \o pd

\* The while loop, going on whatever next_page returned.
AfterAdvanceIgnore(has_next) == "scrape_page"

\* "has_next = await self.next_page(page); if not has_next: break": the loop
\* scrapes again, or is left for browser.close().
AfterAdvance(has_next) == IF has_next THEN "scrape_page" ELSE "close"

\* The message with the two numbers in each other's place.
ProgressMessageSwapped(cp, total) == [ page |-> total, total |-> cp ]

\* f"Scraped page {self.current_page}, total items: {self.total_items_scraped}":
\* the two numbers the text carries.
ProgressMessage(cp, total) == [ page |-> cp, total |-> total ]

\* The handler, with an empty result reported as an error.
HandlerOutcomeEmptyIsError(out, results) ==
  IF out = "raised" THEN "error"
  ELSE IF results # <<>> THEN "success" ELSE "error"

\* The Search button handler: st.success for a non-empty result,
\* st.warning for an empty one, st.error for an exception.
HandlerOutcome(out, results) ==
  IF out = "raised" THEN "error"
  ELSE IF results # <<>> THEN "success" ELSE "warning"

\* ------------------------------------------------------------------ state

VARIABLES
  pc,                   \* the statement the run is at
  outcome,              \* how run left: "none", "returned" or "raised"
  raisedBy,             \* the step whose exception left run ("none" if none)
  browser,              \* "none", "open" or "closed"
  progress_callback,    \* TRUE when the caller passed a callback
  current_page,         \* self.current_page
  total_items_scraped,  \* self.total_items_scraped
  all_data,             \* all_data of run
  i,                    \* the loop variable of scrape_page
  items_scraped,        \* items_scraped of scrape_page
  page_data,            \* page_data of scrape_page
  data,                 \* what scrape_item returned to scrape_page
  overlay,              \* TRUE while the site shows the detail overlay
  indicator,            \* the site's active-page indicator (0: none)
  nextLink,             \* the site's next-page link at the latest next_page call
  ui,                   \* what the handler showed: "none", "success", "warning", "error"
  status_text,          \* the message the callback last showed (None: nothing)
  item_env,             \* the environment of the scrape_item call under study
  adv_env,              \* the environment of the next_page call under study
  table,                \* the rows of the ingredient table under study
  ingredients,          \* the list parsed from that table (None: not yet)
  examined,             \* history: the row positions waited for on this page
  absentAt,             \* history: the position found absent on this page (0: none)
  succ,                 \* history: scrape_item calls of this page that returned a record
  activated,            \* history: the row positions whose link was clicked on this page
  searchCalls,          \* history: calls of search_and_submit
  notifyCalls,          \* history: calls of the progress callback
  pagesScraped,         \* history: calls of scrape_page
  advanceCalls,         \* history: calls of next_page
  nextClicks            \* history: clicks on the next-page link

ctl == << pc, outcome, raisedBy >>
crawler == << current_page, total_items_scraped >>
pageLocals == << i, items_scraped, page_data, data >>
site == << overlay, indicator, nextLink >>
pageHist == << examined, absentAt, succ, activated >>
runHist == << pagesScraped, advanceCalls, nextClicks, searchCalls, notifyCalls >>
shown == << ui, status_text >>
study == << item_env, adv_env, table, ingredients >>

vars ==
  << pc, outcome, raisedBy, browser, progress_callback, current_page,
     total_items_scraped, all_data, i, items_scraped, page_data, data, overlay,
     indicator, nextLink, ui, status_text, item_env, adv_env, table,
     ingredients, examined, absentAt, succ, activated, pagesScraped,
     advanceCalls, nextClicks, searchCalls, notifyCalls >>

NoItemEnv == [ fault |-> "none", missing |-> {} ]

NoAdvanceEnv == [ link |-> "absent", fault |-> "none", after |-> 0, reload |-> FALSE ]

\* What holds of the crawler from CustomCrawler(search_term) until the first
\* result page has been scraped.
FirstPageState ==
  /\ outcome = "none"
  /\ raisedBy = "none"
  /\ current_page = FirstPage
  /\ total_items_scraped = NoItems
  /\ all_data = <<>>
  /\ items_scraped = 0
  /\ page_data = <<>>
  /\ data = None
  /\ nextLink = "absent"
  /\ ui = "none"
  /\ status_text = None
  /\ absentAt = 0
  /\ succ = 0
  /\ advanceCalls = 0
  /\ nextClicks = 0
  /\ notifyCalls = 0
  /\ ingredients = None

\* The state after CustomCrawler(search_term) and before run starts.
Fresh ==
  /\ FirstPageState
  /\ browser = "none"
  /\ i = RowFirst
  /\ indicator = 0
  /\ examined = <<>>
  /\ activated = <<>>
  /\ table = <<>>
  /\ pagesScraped = 0
  /\ searchCalls = 0

Init ==
  /\ Fresh
  /\ pc = "start"
  /\ progress_callback \in BOOLEAN
  /\ overlay = FALSE
  /\ item_env = NoItemEnv
  /\ adv_env = NoAdvanceEnv

Goto(p) == pc' = p /\ UNCHANGED << outcome, raisedBy >>

\* An exception leaves run: the "async with" block is exited.
Abort(cause) == pc' = "exit" /\ outcome' = "raised" /\ raisedBy' = cause

\* ---------------------------------------------------------------- actions

\* run, lines 17-19: the driver starts, chromium is launched, a page opens.
Launch ==
  /\ pc = "start"
  /\ \E fault \in { "none", "launch", "new_page" } :
       /\ browser' = IF fault = "launch" THEN "none" ELSE "open"
       /\ IF fault = "none" THEN Goto("goto") ELSE Abort(fault)
  /\ UNCHANGED << progress_callback, crawler, all_data, pageLocals, site, shown,
                  study, pageHist, runHist >>

\* run, line 20: page.goto(self.base_url).
OpenQueryPage ==
  /\ pc = "goto"
  /\ \E ok \in BOOLEAN : IF ok THEN Goto("search") ELSE Abort("goto")
  /\ UNCHANGED << browser, progress_callback, crawler, all_data, pageLocals,
                  site, shown, study, pageHist, runHist >>

\* run, lines 21-23: search_and_submit (fill, click, wait for the network to
\* settle), then all_data = [].  The first result page shows some indicator.
SearchAndSubmit ==
  /\ pc = "search"
  /\ \E fault \in { "none", "fill", "click", "load" } :
       IF fault = "none"
         THEN /\ Goto("scrape_page")
              /\ \E n \in 0..MaxIndicator : indicator' = n
         ELSE /\ Abort("search")
              /\ UNCHANGED indicator
  /\ all_data' = <<>>
  /\ searchCalls' = searchCalls + 1
  /\ UNCHANGED << browser, progress_callback, crawler, pageLocals, overlay,
                  nextLink, shown, study, pageHist, pagesScraped, advanceCalls,
                  nextClicks, notifyCalls >>

\* scrape_page, lines 88-89: the locals of a new call.
ScrapePageBegin ==
  /\ pc = "scrape_page"
  /\ i' = RowFirst
  /\ items_scraped' = 0
  /\ page_data' = <<>>
  /\ data' = None
  /\ examined' = <<>>
  /\ absentAt' = 0
  /\ succ' = 0
  /\ activated' = <<>>
  /\ pagesScraped' = pagesScraped + 1
  /\ Goto("wait_row")
  /\ UNCHANGED << browser, progress_callback, crawler, all_data, site, shown,
                  study, advanceCalls, nextClicks, searchCalls, notifyCalls >>

\* scrape_page, lines 90-96: wait for the link of row i; any failure of the
\* wait (the link is absent) breaks the loop.
WaitRow ==
  /\ pc = "wait_row"
  /\ ~LoopDone(i)
  /\ examined' = Append(examined, i)
  /\ \E present \in BOOLEAN :
       IF present
         THEN Goto("item") /\ UNCHANGED absentAt
         ELSE Goto("merge") /\ absentAt' = i
  /\ UNCHANGED << browser, progress_callback, crawler, all_data, pageLocals,
                  site, shown, study, succ, activated, runHist >>

\* scrape_page, lines 90 and 106-107: the range is exhausted.
RowLoopEnd ==
  /\ pc = "wait_row"
  /\ LoopDone(i)
  /\ Goto("merge")
  /\ UNCHANGED << browser, progress_callback, crawler, all_data, pageLocals,
                  site, shown, study, pageHist, runHist >>

\* What a call of scrape_item may come to, over all environments, on a page
\* whose overlay is open (TRUE) or hidden (FALSE).
ItemResults ==
  [ ov \in BOOLEAN |-> { scrape_item(ov, env) : env \in ItemEnvs } ]

\* scrape_page, line 99: scrape_item was called and came to r.
ItemStep(r) ==
  /\ pc = "item"
  /\ overlay' = r.overlay
  /\ activated' = Append(activated, i)
  /\ IF r.res.raised
       THEN Abort("scrape_item") /\ UNCHANGED << data, succ >>
       ELSE /\ Goto("collect")
            /\ data' = r.res.value
            /\ succ' = IF r.res.value # None THEN succ + 1 ELSE succ
  /\ UNCHANGED << browser, progress_callback, crawler, all_data, i,
                  items_scraped, page_data, indicator, nextLink, shown, study,
                  examined, absentAt, runHist >>

\* One call of scrape_item, lines 45-81, in some environment.
ScrapeItem == \E r \in ItemResults[overlay] : ItemStep(r)

\* scrape_page, lines 100-104 and the step of the for loop.  data is not
\* read again before line 99 assigns it anew.
Collect ==
  /\ pc = "collect"
  /\ page_data' = CollectData(page_data, data)
  /\ items_scraped' = CollectCount(items_scraped, data)
  /\ i' = NextRow(i, data)
  /\ data' = None
  /\ Goto(AfterCollect(data))
  /\ UNCHANGED << browser, progress_callback, crawler, all_data, site, shown,
                  study, pageHist, runHist >>

\* run, lines 25-27: scrape_page has returned (items_scraped, page_data) and
\* the page's result is merged.  The locals of the finished call are gone,
\* and the history of that call ends.
Merge ==
  /\ pc = "merge"
  /\ all_data' = Extend(all_data, page_data)
  /\ total_items_scraped' = total_items_scraped + items_scraped
  /\ i' = RowFirst
  /\ items_scraped' = 0
  /\ page_data' = <<>>
  /\ data' = None
  /\ examined' = <<>>
  /\ absentAt' = 0
  /\ succ' = 0
  /\ activated' = <<>>
  /\ Goto("notify")
  /\ UNCHANGED << browser, progress_callback, current_page, site, shown, study,
                  runHist >>

\* run, lines 29-30: the callback, when there is one, is called with the
\* message; it shows it (line 173) or raises.
Notify ==
  /\ pc = "notify"
  /\ IF progress_callback
       THEN /\ notifyCalls' = notifyCalls + 1
            /\ \E ok \in BOOLEAN :
                 IF ok
                   THEN /\ Goto("advance")
                        /\ status_text' =
                             Some(ProgressMessage(current_page, total_items_scraped))
                   ELSE Abort("callback") /\ UNCHANGED status_text
       ELSE Goto("advance") /\ UNCHANGED << notifyCalls, status_text >>
  /\ UNCHANGED << browser, progress_callback, crawler, all_data, pageLocals,
                  site, ui, study, pageHist, pagesScraped, advanceCalls,
                  nextClicks, searchCalls >>

\* run, lines 32-34: one call of next_page (lines 109-147) in environment env.
AdvanceStep(env) ==
  /\ pc = "advance"
  /\ LET r == next_page(current_page, env)
     IN /\ current_page' = r.current_page
        /\ nextLink' = env.link
        /\ nextClicks' = IF r.clicked THEN nextClicks + 1 ELSE nextClicks
        /\ indicator' = IF r.clicked THEN env.after ELSE indicator
        /\ overlay' = IF r.clicked /\ env.reload THEN FALSE ELSE overlay
        /\ IF r.res.raised THEN Abort("next_page")
           ELSE Goto(AfterAdvance(r.res.value))
  /\ advanceCalls' = advanceCalls + 1
  /\ UNCHANGED << browser, progress_callback, total_items_scraped, all_data,
                  pageLocals, shown, study, pageHist, pagesScraped, searchCalls,
                  notifyCalls >>

NextPage == \E env \in AdvanceEnvs : AdvanceStep(env)

\* run, line 36: browser.close().
BrowserClose ==
  /\ pc = "close"
  /\ \E ok \in BOOLEAN :
       IF ok THEN Goto("return") /\ browser' = "closed"
             ELSE Abort("close") /\ UNCHANGED browser
  /\ UNCHANGED << progress_callback, crawler, all_data, pageLocals, site, shown,
                  study, pageHist, runHist >>

\* run, lines 37-38: return all_data.
Return ==
  /\ pc = "return"
  /\ pc' = "exit"
  /\ outcome' = "returned"
  /\ UNCHANGED << raisedBy, browser, progress_callback, crawler, all_data,
                  pageLocals, site, shown, study, pageHist, runHist >>

\* run, line 17: the "async with" block is left, by return or by exception.
ExitPlaywright ==
  /\ pc = "exit"
  /\ browser' = PlaywrightStop(browser)
  /\ Goto("handler")
  /\ UNCHANGED << progress_callback, crawler, all_data, pageLocals, site, shown,
                  study, pageHist, runHist >>

\* The Search button handler, lines 175-204, once asyncio.run is over.
Handler ==
  /\ pc = "handler"
  /\ ui' = HandlerOutcome(outcome, all_data)
  /\ status_text' = None
  /\ Goto("done")
  /\ UNCHANGED << browser, progress_callback, crawler, all_data, pageLocals,
                  site, study, pageHist, runHist >>

Next ==
  \/ Launch
  \/ OpenQueryPage
  \/ SearchAndSubmit
  \/ ScrapePageBegin
  \/ WaitRow
  \/ RowLoopEnd
  \/ ScrapeItem
  \/ Collect
  \/ Merge
  \/ Notify
  \/ NextPage
  \/ BrowserClose
  \/ Return
  \/ ExitPlaywright
  \/ Handler

Spec == Init /\ [][Next]_vars

\* The run as the Search button handler starts it (line 176): a callback is
\* passed.  Every awaited browser operation completes or times out, so the
\* run always takes its next step.
HandlerInit == Init /\ progress_callback

FairSpec == HandlerInit /\ [][Next]_vars /\ WF_vars(Next)

\* ------------------------------------------- scrape_item studied on its own

\* The first result page is being scraped (the search succeeded and no
\* page was merged yet), the run being at statement p.
OnFirstPage(p) ==
  /\ FirstPageState
  /\ pc = p
  /\ browser = "open"
  /\ progress_callback = FALSE
  /\ pagesScraped = 1
  /\ searchCalls = 1

\* One call of scrape_item, in any environment: for the first row, the
\* overlay hidden, or for the second row after the first item failed and
\* left the overlay open.
ItemInit ==
  /\ OnFirstPage("item")
  /\ overlay \in BOOLEAN
  /\ i = IF overlay THEN RowFirst + 1 ELSE RowFirst
  /\ examined = IF overlay THEN << RowFirst, RowFirst + 1 >> ELSE << RowFirst >>
  /\ activated = IF overlay THEN << RowFirst >> ELSE <<>>
  /\ indicator = 0
  /\ item_env \in ItemEnvs
  /\ adv_env = NoAdvanceEnv
  /\ table = <<>>

ItemCall == ItemStep(scrape_item(overlay, item_env))

ItemNext == ItemCall

ItemSpec == ItemInit /\ [][ItemNext]_vars

\* The call and what scrape_page does with its result (lines 99-104).
ItemCollectNext == ItemCall \/ Collect

ItemCollectSpec == ItemInit /\ [][ItemCollectNext]_vars

\* -------------------------------------------- next_page studied on its own

\* The environments of the call studied on its own.
ShownEnvs ==
  [ link : LinkStates, fault : AdvanceFaults, after : 0..MaxShown,
    reload : BOOLEAN ]

\* The first call of next_page, in any environment, after a first page
\* without rows whose indicator shows 1.
AdvanceInit ==
  /\ OnFirstPage("advance")
  /\ overlay = FALSE
  /\ i = RowFirst
  /\ examined = <<>>
  /\ activated = <<>>
  /\ indicator = FirstPage
  /\ item_env = NoItemEnv
  /\ adv_env \in ShownEnvs
  /\ table = <<>>

AdvanceCall == AdvanceStep(adv_env)

AdvanceNext == AdvanceCall

AdvanceSpec == AdvanceInit /\ [][AdvanceNext]_vars

\* ------------------------------- the ingredient table studied on its own

\* The texts a cell of the table may hold: "a", and "c d" after a tab and
\* before a no-break space and a line feed.
CellTexts == { << 97 >>, << 9, 99, 32, 100, 160, 10 >> }

\* The rows the table may have: no td cell (a row of th cells), one cell,
\* two cells or three.
TableRows ==
  { <<>>, << CellText >>, << CellText, CellText, CellText >> }
    \cup { << t, u >> : t \in CellTexts, u \in CellTexts }

Tables == UNION { [ 1..n -> TableRows ] : n \in 0..MaxTableRows }

\* scrape_item has opened the overlay of the first row and read the fields;
\* the second table has any rows.
TableInit ==
  /\ OnFirstPage("item")
  /\ overlay = TRUE
  /\ i = RowFirst
  /\ examined = << RowFirst >>
  /\ activated = << RowFirst >>
  /\ indicator = 0
  /\ item_env = NoItemEnv
  /\ adv_env = NoAdvanceEnv
  /\ table \in Tables

\* scrape_item, lines 62-73: the list is built from the rows of the table.
ReadIngredients ==
  /\ pc = "item"
  /\ ingredients = None
  /\ ingredients' = Some(ParseIngredients(table))
  /\ UNCHANGED << ctl, browser, progress_callback, crawler, all_data,
                  pageLocals, site, shown, item_env, adv_env, table, pageHist,
                  runHist >>

TableNext == ReadIngredients

TableSpec == TableInit /\ [][TableNext]_vars

\* ----------------------------------------------------------------- claims

\* C1: at every point of the run loop (after a page is merged, at the
\* progress notification, at the call of next_page, at the return and in
\* between) total_items_scraped is the number of records in all_data.
C1_CounterEqualsLength == total_items_scraped = Len(all_data)

\* C1 witness: the second page was just merged; the two pages gave five
\* records.
C1_Witness ==
  /\ pc = "notify"
  /\ pagesScraped = 2
  /\ Len(all_data) = 5
  /\ total_items_scraped = 5

\* C2 (as claimed): when the overlay opens and a label has no matching
\* element, and nothing else goes wrong, scrape_item returns a record whose
\* field for that label is the empty string.
C2_MissingLabelGivesEmptyField ==
  (pc # "item" /\ item_env.fault = "none" /\ item_env.missing # {})
    => /\ pc = "collect"
       /\ data # None
       /\ \A k \in item_env.missing : data[1][k] = <<>>

\* C3 (as claimed): next_page returns True only when the indicator read
\* after the click is greater than the indicator was before the click.
C3_TrueOnlyIfIndicatorIncreased ==
  [][(pc = "advance" /\ pc' = "scrape_page") => indicator' > indicator]_vars

\* C4 (as claimed): when scrape_item has returned, and whenever scrape_page
\* waits for or activates a row link, the overlay is hidden.
C4_OverlayHiddenOnReturn == pc \in { "collect", "wait_row", "item" } => ~overlay

\* C5: once run has handed control back to its caller, by return or by
\* exception, the browser it opened is no longer open.
C5_BrowserClosedOnExit == pc \in { "handler", "done" } => browser # "open"

\* C5 witness: the callback raised on the second page and the caller has
\* control again, the browser closed.
C5_Witness ==
  /\ pc = "handler"
  /\ raisedBy = "callback"
  /\ outcome = "raised"
  /\ pagesScraped = 2
  /\ browser = "closed"

\* C6: scrape_item never raises to its caller; whichever step fails, it
\* returns None.
C6_ItemNeverRaises ==
  pc # "item"
    => /\ pc = "collect"
       /\ raisedBy = "none"
       /\ outcome = "none"
       /\ (item_env.fault # "none" => data = None)

\* C6 witness: the click on the close control failed and None came back.
C6_Witness ==
  /\ pc = "collect"
  /\ item_env.fault = "close"
  /\ item_env.missing = {}
  /\ data = None

\* C7: scrape_page examines positions 2, 3, ... in order and none beyond 21,
\* stops at the first absent one, and returns as count the number of
\* examined rows that gave a record.
C7_RowWindow ==
  /\ Len(examined) <= 20
  /\ \A n \in 1..Len(examined) : examined[n] = n + 1 /\ examined[n] <= 21
  /\ absentAt # 0 =>
       /\ pc = "merge"
       /\ examined[Len(examined)] = absentAt
  /\ pc = "merge" =>
       /\ items_scraped = succ
       /\ Len(page_data) = succ
       /\ succ <= Len(examined) - (IF absentAt # 0 THEN 1 ELSE 0)

\* C7 witness: positions 2 to 4 were scraped, 5 was absent, the count is 3.
C7_Witness ==
  /\ pc = "merge"
  /\ examined = << 2, 3, 4, 5 >>
  /\ absentAt = 5
  /\ items_scraped = 3

\* C7 witness for the window's end: all of 2..21 were present.
C7_FullPage == pc = "merge" /\ Len(examined) = 20 /\ absentAt = 0

\* C8: a next_page call that finds the link absent or disabled returns
\* False, clicks nothing and leaves current_page alone.
C8_NoLinkNoClick ==
  [][(pc = "advance" /\ nextLink' \in { "absent", "disabled" })
       => /\ pc' = "close"
          /\ nextClicks' = nextClicks
          /\ current_page' = current_page]_vars

\* C8 witness: the second call found the link disabled and returned False.
C8_Witness ==
  /\ pc = "close"
  /\ nextLink = "disabled"
  /\ advanceCalls = 2
  /\ nextClicks = 1
  /\ current_page = 2

\* next_page has returned False in this run: line 36 was reached.
AdvanceReturnedFalse ==
  pc \in { "close", "return" } \/ outcome = "returned" \/ raisedBy = "close"

\* C9 (as claimed): with an indicator that never exceeds MaxIndicator, a run
\* whose search succeeded ends, next_page returns False in it, and at most
\* MaxIndicator pages are scraped.
C9_AdvanceEventuallyFalse ==
  /\ [](pagesScraped <= MaxIndicator)
  /\ (pagesScraped > 0) ~> (pc = "done" /\ AdvanceReturnedFalse)

\* C9 (amended): such a run ends, and in it next_page returns False unless
\* the progress callback raised; at most MaxIndicator pages are scraped.
C9_RunTerminates ==
  /\ [](pagesScraped <= MaxIndicator)
  /\ (pagesScraped > 0)
       ~> (pc = "done" /\ (AdvanceReturnedFalse \/ raisedBy = "callback"))

\* C9 witness: a run over MaxIndicator pages ended after next_page
\* returned False.
C9_Witness ==
  /\ pc = "done"
  /\ pagesScraped = MaxIndicator
  /\ advanceCalls = MaxIndicator
  /\ outcome = "returned"

\* C10: when going to the query page or submitting the search fails, no page
\* is scraped, next_page is not called, run returns nothing, and the caller
\* shows an error, which is not what it shows for an empty result.
C10_SearchFailurePropagates ==
  /\ raisedBy \in { "goto", "search" } =>
       /\ pagesScraped = 0
       /\ advanceCalls = 0
       /\ outcome = "raised"
       /\ pc \in { "exit", "handler", "done" }
       /\ pc = "done" => ui = "error"
  /\ (pc = "done" /\ outcome = "returned" /\ all_data = <<>>) =>
       ui \notin { "error", "none" }

\* C10 witness: the search submission failed and the caller showed the error.
C10_Witness == pc = "done" /\ raisedBy = "search" /\ ui = "error"

\* C10 witness for the other side: an empty result was shown as a warning.
C10_EmptyResult ==
  pc = "done" /\ outcome = "returned" /\ all_data = <<>> /\ ui = "warning"

\* C11: with a progress callback, the callback is called once per scraped
\* page, after the page was merged and before next_page is called for it;
\* the message carries current_page as it is before that call of next_page
\* and the running total, which is the number of records merged so far.
C11_CallbackOncePerPage ==
  /\ ~progress_callback => notifyCalls = 0 /\ status_text = None
  /\ progress_callback =>
       /\ pc \in { "wait_row", "item", "collect", "merge", "notify" } =>
            notifyCalls = pagesScraped - 1
       /\ pc \in { "scrape_page", "advance", "close", "return" } =>
            notifyCalls = pagesScraped
       /\ pc = "notify" =>
            advanceCalls = pagesScraped - 1 /\ total_items_scraped = Len(all_data)
       /\ pc = "advance" =>
            /\ advanceCalls = pagesScraped - 1
            /\ status_text =
                 Some([ page |-> current_page, total |-> Len(all_data) ])

\* C11 witness: the callback was called for the second page, of which one
\* record was merged, and next_page was not yet called for it.
C11_Witness ==
  /\ pc = "advance"
  /\ progress_callback
  /\ pagesScraped = 2
  /\ notifyCalls = 2
  /\ advanceCalls = 1
  /\ status_text = Some([ page |-> 2, total |-> 1 ])

\* C12: when scrape_item returned None for row position i, scrape_page
\* appends nothing to page_data, leaves items_scraped as it is and goes on
\* with position i + 1, which it examines next unless the range is over;
\* neither the page loop nor the run ends with the failed item.
C12_FailedItemSkipped ==
  [][ /\ (pc = "collect" /\ data = None) =>
           /\ page_data' = page_data
           /\ items_scraped' = items_scraped
           /\ i' = i + 1
           /\ pc' = "wait_row"
           /\ outcome' = "none"
      /\ (pc = "wait_row" /\ i < RowEnd) => examined' = Append(examined, i)
    ]_vars

\* C12 witness: the item of position 2 failed, nothing was counted or kept,
\* and position 3 was examined and found present.
C12_Witness ==
  /\ pc = "item"
  /\ i = RowFirst + 1
  /\ examined = << RowFirst, RowFirst + 1 >>
  /\ activated = << RowFirst >>
  /\ succ = 0
  /\ items_scraped = 0
  /\ page_data = <<>>
  /\ outcome = "none"

\* C13 as stated: when next_page returns True, current_page after the call is
\* current_page before the call plus 1, whatever the indicator shows after
\* the click.
C13_AdvanceAddsOne ==
  [][ (pc = "advance" /\ pc' = "scrape_page") => current_page' = current_page + 1
    ]_vars

\* C13, amended: when next_page returns True, current_page after the call is
\* the number the indicator shows after the click, which is greater than
\* current_page before the call; the increase is 1 exactly when the indicator
\* shows the next number.
C13_AdvanceTakesIndicator ==
  [][ (pc = "advance" /\ pc' = "scrape_page") =>
        /\ current_page' = adv_env.after
        /\ current_page' = indicator'
        /\ current_page' > current_page
        /\ (current_page' = current_page + 1) <=> (adv_env.after = current_page + 1)
    ]_vars

\* C13 witness: next_page returned True on page 1 with the indicator showing
\* 3 after the click.
C13_Witness ==
  /\ pc = "scrape_page"
  /\ advanceCalls = 1
  /\ adv_env.after = FirstPage + 2
  /\ current_page = FirstPage + 2

\* C14: current_page is 1 at the start, and a step changes it only when it is
\* a call of next_page that returns True, which makes it greater; the search
\* submission, scrape_page, scrape_item, the callback and every call of
\* next_page that returns False leave it as it is.
C14_OnlyTrueAdvanceChangesPage ==
  /\ current_page = FirstPage
  /\ [][ current_page' # current_page =>
           /\ pc = "advance"
           /\ pc' = "scrape_page"
           /\ current_page' > current_page
       ]_vars

\* C14 witness: after a call that returned True, a second call clicked the
\* link, read a smaller number from the indicator and returned False, and
\* current_page is still 2.
C14_Witness ==
  /\ pc = "close"
  /\ advanceCalls = 2
  /\ nextClicks = 2
  /\ indicator = 1
  /\ current_page = 2

\* C15 as stated: the search is submitted once, before the first call of
\* scrape_page; each call of scrape_page is followed by one call of
\* next_page, so a finished run has as many of the one as of the other; True
\* leads to one more call of scrape_page; once next_page returned False
\* (current_page is as before the call), scrape_page, next_page and the
\* search submission are not called again.
C15_ScrapeThenAdvance ==
  /\ [] /\ searchCalls <= 1
        /\ pagesScraped > 0 => searchCalls = 1
        /\ advanceCalls <= pagesScraped
        /\ pagesScraped <= advanceCalls + 1
        /\ pc = "scrape_page" => advanceCalls = pagesScraped
        /\ pc = "done" => advanceCalls = pagesScraped
  /\ [][ /\ (pc = "advance" /\ current_page' = current_page) => pc' = "close"
         /\ (pc = "advance" /\ current_page' # current_page) => pc' = "scrape_page"
         /\ pc = "scrape_page" =>
              pagesScraped' = pagesScraped + 1 /\ pc' = "wait_row"
         /\ pc \in { "close", "return", "exit", "handler", "done" } =>
              /\ pc' \in { "return", "exit", "handler", "done" }
              /\ pagesScraped' = pagesScraped
              /\ advanceCalls' = advanceCalls
              /\ searchCalls' = searchCalls
       ]_vars

\* C15, amended: as stated, except that a progress callback that raises
\* ends the run after a call of scrape_page that no call of next_page follows.
C15_ScrapeThenAdvanceUnlessCallbackRaises ==
  /\ [] /\ searchCalls <= 1
        /\ pagesScraped > 0 => searchCalls = 1
        /\ advanceCalls <= pagesScraped
        /\ pagesScraped <= advanceCalls + 1
        /\ pc = "scrape_page" => advanceCalls = pagesScraped
        /\ pc = "done" =>
             advanceCalls =
               IF raisedBy = "callback" THEN pagesScraped - 1 ELSE pagesScraped
  /\ [][ /\ (pc = "advance" /\ current_page' = current_page) => pc' = "close"
         /\ (pc = "advance" /\ current_page' # current_page) => pc' = "scrape_page"
         /\ pc = "scrape_page" =>
              pagesScraped' = pagesScraped + 1 /\ pc' = "wait_row"
         /\ pc \in { "close", "return", "exit", "handler", "done" } =>
              /\ pc' \in { "return", "exit", "handler", "done" }
              /\ pagesScraped' = pagesScraped
              /\ advanceCalls' = advanceCalls
              /\ searchCalls' = searchCalls
       ]_vars

\* C15 witness: two pages were scraped, next_page returned True and then
\* False, and the run is over.
C15_Witness ==
  /\ pc = "done"
  /\ searchCalls = 1
  /\ pagesScraped = 2
  /\ advanceCalls = 2
  /\ raisedBy = "none"

\* C15 witness for the exception: the callback raised after the second page.
C15_CallbackRaised ==
  /\ pc = "done"
  /\ raisedBy = "callback"
  /\ pagesScraped = 2
  /\ advanceCalls = 1

\* C16: next_page raises nothing: when the wait for the pagination region
\* fails, or any other step of it does, the call returns False, and run goes
\* on to browser.close() with no exception and current_page as it was.
C16_AdvanceNeverRaises ==
  pc # "advance" =>
    /\ raisedBy = "none"
    /\ outcome = "none"
    /\ pc \in { "scrape_page", "close" }
    /\ advanceCalls = 1
    /\ adv_env.fault # "none" => pc = "close" /\ current_page = FirstPage
    /\ adv_env.fault \in { "region", "query" } => nextClicks = 0

\* C16 witness: the click on the enabled link raised, and run is at
\* browser.close() without an exception.
C16_Witness ==
  /\ pc = "close"
  /\ adv_env.fault = "click"
  /\ adv_env.link = "enabled"
  /\ nextClicks = 1
  /\ raisedBy = "none"

\* C16 witness for the first step: the wait for the region failed.
C16_RegionWaitFailed ==
  pc = "close" /\ adv_env.fault = "region" /\ nextClicks = 0 /\ raisedBy = "none"

\* C17: the ingredient list is, in row order, the pairs of the trimmed texts
\* of the first and the second cell of those rows of the table that come
\* after the first two and have exactly two cells; other rows give nothing,
\* and a table of two rows or fewer gives the empty list and no exception.
C17_IngredientList ==
  ingredients # None =>
    LET out == ingredients[1]
        idx == { n \in 1..Len(table) : n > 2 /\ Len(table[n]) = 2 }
        nth(k) == CHOOSE n \in idx : Cardinality({ m \in idx : m <= n }) = k
        blank == { 9, 10, 11, 12, 13, 28, 29, 30, 31, 32, 133, 160, 5760,
                   8192, 8193, 8194, 8195, 8196, 8197, 8198, 8199, 8200,
                   8201, 8202, 8232, 8233, 8239, 8287, 12288 }
        IsTrimOf(t, s) ==
          \E a, b \in 0..Len(s) :
            /\ a + b <= Len(s)
            /\ t = SubSeq(s, a + 1, Len(s) - b)
            /\ \A k \in 1..a : s[k] \in blank
            /\ \A k \in (Len(s) - b + 1)..Len(s) : s[k] \in blank
            /\ t = <<>> \/ (t[1] \notin blank /\ t[Len(t)] \notin blank)
    IN /\ DOMAIN out = 1..Cardinality(idx)
       /\ \A k \in DOMAIN out :
            /\ DOMAIN out[k] = { "ingredient", "content" }
            /\ IsTrimOf(out[k].ingredient, table[nth(k)][1])
            /\ IsTrimOf(out[k].content, table[nth(k)][2])
       /\ Len(table) <= 2 => out = <<>>
       /\ raisedBy = "none"

\* C17 witness: of four rows, the first two are skipped although the second
\* has two cells, the third has three cells, and the fourth gives the one
\* pair of the list, its second text trimmed.
C17_Witness ==
  /\ ingredients # None
  /\ Len(table) = 4
  /\ Len(table[2]) = 2
  /\ Len(table[3]) = 3
  /\ table[4] = << << 97 >>, << 9, 99, 32, 100, 160, 10 >> >>
  /\ ingredients[1] = << [ ingredient |-> << 97 >>, content |-> << 99, 32, 100 >> ] >>

\* C17 witness for the short table: two rows of two cells give the empty list.
C17_HeaderOnly ==
  ingredients = Some(<<>>) /\ Len(table) = 2 /\ Len(table[1]) = 2 /\ Len(table[2]) = 2

\* C18: nothing is tried twice: on a page no row position has its link
\* clicked more than once, whether its item succeeded or failed; the
\* next-page link is clicked at most once for each scraped page; and a call
\* of next_page that returned False (current_page is as before) is followed
\* by browser.close(), after which no link is clicked and next_page is not
\* called again.
C18_NothingRetried ==
  /\ [] /\ \A a, b \in DOMAIN activated : a # b => activated[a] # activated[b]
        /\ Len(activated) <= Len(examined)
        /\ nextClicks <= advanceCalls
        /\ advanceCalls <= pagesScraped
  /\ [][ /\ (pc = "advance" /\ current_page' = current_page) => pc' = "close"
         /\ pc = "advance" => nextClicks' <= nextClicks + 1
         /\ pc \in { "close", "return", "exit", "handler", "done" } =>
              /\ pc' \notin { "advance", "item" }
              /\ nextClicks' = nextClicks
              /\ advanceCalls' = advanceCalls
              /\ activated' = activated
       ]_vars

\* C18 witness: on the second page the links of positions 2 and 3 were each
\* clicked once, one item failing and one succeeding, and the next-page link
\* was clicked once so far.
C18_Witness ==
  /\ pc = "wait_row"
  /\ pagesScraped = 2
  /\ nextClicks = 1
  /\ activated = << RowFirst, RowFirst + 1 >>
  /\ succ = 1
  /\ items_scraped = 1

\* C18 witness for the advance: the second click was not confirmed and the
\* run ended with two calls and two clicks for two pages.
C18_UnconfirmedAdvanceEndsRun ==
  /\ pc = "done"
  /\ outcome = "returned"
  /\ pagesScraped = 2
  /\ advanceCalls = 2
  /\ nextClicks = 2

\* C19 (as claimed): once the search submission succeeded, and unless the
\* progress callback raises, nothing aborts the run: scrape_item and
\* next_page raise nothing, a page without rows gives no items, the run
\* returns, and an empty result has total 0 and is not shown as an error.
C19_RunAlwaysReturns ==
  /\ raisedBy \notin { "scrape_item", "next_page" }
  /\ (pc = "merge" /\ absentAt = RowFirst) =>
       page_data = <<>> /\ items_scraped = 0 /\ outcome = "none"
  /\ (pc = "done" /\ searchCalls = 1 /\ raisedBy \notin { "search", "callback" }) =>
       outcome = "returned"
  /\ (pc = "done" /\ outcome = "returned" /\ all_data = <<>>) =>
       total_items_scraped = 0 /\ ui = "warning"

\* What the code does instead: browser.close() raised after next_page
\* returned False; run raised, the records merged so far were not returned,
\* and the caller showed an error.
C19_CloseRaised ==
  /\ pc = "done"
  /\ raisedBy = "close"
  /\ outcome = "raised"
  /\ advanceCalls = pagesScraped
  /\ all_data # <<>>
  /\ ui = "error"

\* C20: scrape_item returns a record, and scrape_page keeps and counts it,
\* exactly when the whole sequence completed: nothing raised and every label
\* had its cell.  The record then has the eight field keys and
\* active_ingredients, and the overlay is hidden.  When the close click or
\* the wait for the hidden overlay fails, the data read before is dropped.
C20_RecordOnlyFromCompletedItem ==
  LET completed == item_env.fault = "none" /\ item_env.missing = {}
      keys == { "registered_number", "first_prove", "period", "product_name",
                "toxicity", "formulation", "registration_certificate_holder",
                "remark", "active_ingredients" }
  IN /\ pc = "collect" =>
          /\ data # None <=> completed
          /\ data # None => DOMAIN data[1] = keys /\ ~overlay
          /\ item_env.fault \in { "close", "wait_hidden" } => data = None
     /\ pc = "wait_row" =>
          /\ Len(page_data) = (IF completed THEN 1 ELSE 0)
          /\ items_scraped = Len(page_data)
          /\ \A k \in DOMAIN page_data : DOMAIN page_data[k] = keys
          /\ item_env.fault \in { "close", "wait_hidden" } =>
               page_data = <<>> /\ items_scraped = 0

\* C20 witness: every field and the table were read, the wait for the hidden
\* overlay failed, and scrape_page kept nothing of the item.
C20_Witness ==
  /\ pc = "wait_row"
  /\ item_env = [ fault |-> "wait_hidden", missing |-> {} ]
  /\ overlay
  /\ page_data = <<>>
  /\ items_scraped = 0

\* C20 witness for the completed item: its record was kept.
C20_RecordKept ==
  /\ pc = "wait_row"
  /\ item_env = [ fault |-> "none", missing |-> {} ]
  /\ Len(page_data) = 1
  /\ items_scraped = 1
  /\ ~overlay

====
